---------------------------- MODULE Spec2Model ----------------------------
(***************************************************************************)
(* Model of the jQuery plugin $.fn.tagCloud (scripts/jquery.tagCloud.js).  *)
(*                                                                         *)
(* The document holds tags; every tag lives in one container, carries a    *)
(* weight attribute (a string), a set of band classes and possibly the     *)
(* 'processed' class.  One call of the plugin visits the matched           *)
(* containers in turn, computes min/max of the parseInt'ed weights of the  *)
(* container's tags, derives the range boundaries in IEEE-754 binary64     *)
(* arithmetic (the arithmetic of JavaScript numbers) and adds to every tag *)
(* the class of each range that matches while the tag is not 'processed'.  *)
(***************************************************************************)
EXTENDS Integers, Sequences, FiniteSets, TLC

(***************************************************************************)
(* Bounds of the model.                                                    *)
(***************************************************************************)
NumItems == 3
NumContainers == 2
MaxBands == 3
MaxWeight == 2
MaxRandom == 1
MaxCalls == 2
\* a long classes list and the weights it is tried with: 0, WideWeight, 2 * WideWeight
ManyBands == 22
WideWeight == 15

Items == 1..NumItems
Containers == 1..NumContainers

VARIABLES
  weight,     \* tag -> the string in its weight attribute
  container,  \* tag -> the container it is found in
  bands,      \* tag -> the indexes of the band classes it carries
  processed,  \* tag -> whether it carries the 'processed' class
  classes,    \* the length of settings.classes
  call,       \* the last plugin call, if nothing happened since
  calls       \* the number of plugin calls so far

vars == <<weight, container, bands, processed, classes, call, calls>>

(***************************************************************************)
(* Natural numbers of any size as sequences of limbs, digits to the base   *)
(* 2^LimbBits, least significant limb first and without leading zeros      *)
(* (zero is the empty sequence).  They carry the significands of           *)
(* JavaScript numbers, which do not fit TLC's integers.                    *)
(***************************************************************************)
LimbBits == 16
Base == 2 ^ LimbBits

RECURSIVE NatLimbs(_)
NatLimbs(n) == IF n = 0 THEN <<>> ELSE <<n % Base>> \o NatLimbs(n \div Base)

Limb(a, i) == IF 1 <= i /\ i <= Len(a) THEN a[i] ELSE 0

RECURSIVE Trim(_)
Trim(a) ==
  IF a = <<>> THEN a
  ELSE IF a[Len(a)] # 0 THEN a ELSE Trim(SubSeq(a, 1, Len(a) - 1))

RECURSIVE AddC(_, _, _, _)
AddC(a, b, i, c) ==
  IF i > Len(a) /\ i > Len(b)
  THEN (IF c = 1 THEN <<1>> ELSE <<>>)
  ELSE LET s == Limb(a, i) + Limb(b, i) + c
       IN  <<s % Base>> \o AddC(a, b, i + 1, s \div Base)

AddLimbs(a, b) == AddC(a, b, 1, 0)

\* a - b for a >= b
RECURSIVE SubC(_, _, _, _)
SubC(a, b, i, c) ==
  IF i > Len(a) THEN <<>>
  ELSE LET s == Limb(a, i) - Limb(b, i) - c
       IN  <<s % Base>> \o SubC(a, b, i + 1, IF s < 0 THEN 1 ELSE 0)

SubLimbs(a, b) == Trim(SubC(a, b, 1, 0))

\* a * k for a small k
RECURSIVE MulC(_, _, _, _)
MulC(a, k, i, c) ==
  IF i > Len(a) THEN NatLimbs(c)
  ELSE LET s == a[i] * k + c
       IN  <<s % Base>> \o MulC(a, k, i + 1, s \div Base)

MulLimbs(a, k) == IF k = 0 THEN <<>> ELSE MulC(a, k, 1, 0)

\* -1, 0, 1 as a < b, a = b, a > b
RECURSIVE CmpFrom(_, _, _)
CmpFrom(a, b, i) ==
  IF i = 0 THEN 0
  ELSE IF a[i] > b[i] THEN 1
  ELSE IF a[i] < b[i] THEN -1
  ELSE CmpFrom(a, b, i - 1)

CmpLimbs(a, b) ==
  IF Len(a) > Len(b) THEN 1
  ELSE IF Len(a) < Len(b) THEN -1
  ELSE CmpFrom(a, b, Len(a))

\* the number of significant bits
BitLength(a) ==
  IF a = <<>> THEN 0
  ELSE LimbBits * (Len(a) - 1)
       + (CHOOSE n \in 1..LimbBits : 2 ^ (n - 1) <= a[Len(a)] /\ a[Len(a)] < 2 ^ n)

\* bit k, the bits counted from 0
TestBit(a, k) == (Limb(a, (k \div LimbBits) + 1) \div 2 ^ (k % LimbBits)) % 2 = 1

\* a mod 2^k # 0
LowBitsSet(a, k) ==
  \/ \E i \in 1..(k \div LimbBits) : Limb(a, i) # 0
  \/ Limb(a, (k \div LimbBits) + 1) % 2 ^ (k % LimbBits) # 0

\* a div 2^k
ShiftRight(a, k) ==
  LET q == k \div LimbBits
      r == k % LimbBits
  IN  Trim([i \in 1..(Len(a) - q) |->
              (a[i + q] \div 2 ^ r) + (Limb(a, i + q + 1) % 2 ^ r) * 2 ^ (LimbBits - r)])

\* a * 2^k
ShiftLeft(a, k) ==
  LET q == k \div LimbBits
      r == k % LimbBits
  IN  Trim([i \in 1..(Len(a) + q + 1) |->
              (Limb(a, i - q) % 2 ^ (LimbBits - r)) * 2 ^ r
              + (Limb(a, i - q - 1) \div 2 ^ (LimbBits - r))])

(***************************************************************************)
(* JavaScript numbers.  A finite number is sign and magnitude, the         *)
(* magnitude counted in units of 2^-FracBits: every number the plugin      *)
(* computes from weights and class counts below 2^11 is a multiple of that *)
(* unit.  Results are rounded to Precision significant bits, ties to even. *)
(* -0 is not told apart from 0: no comparison of the plugin does.          *)
(***************************************************************************)
Precision == 53
FracLimbs == 4
FracBits == FracLimbs * LimbBits

NaN == [k |-> "nan", neg |-> FALSE, mag |-> <<>>]
Infinity(neg) == [k |-> "inf", neg |-> neg, mag |-> <<>>]
Finite(neg, mag) == [k |-> "fin", neg |-> (neg /\ mag # <<>>), mag |-> mag]

Abs(n) == IF n < 0 THEN -n ELSE n

FromInt(n) == Finite(n < 0, ShiftLeft(NatLimbs(Abs(n)), FracBits))

\* round to nearest, ties to even; sticky tells of a remainder below bit 0
Round(a, sticky) ==
  IF BitLength(a) <= Precision THEN a
  ELSE LET k    == BitLength(a) - Precision
           q    == ShiftRight(a, k)
           half == TestBit(a, k - 1)
           rest == sticky \/ LowBitsSet(a, k - 1)
           up   == half /\ (rest \/ TestBit(q, 0))
       IN  ShiftLeft(IF up THEN AddLimbs(q, <<1>>) ELSE q, k)

\* the first n limbs of rem / d after the point, first limb last
RECURSIVE FractionLimbs(_, _, _)
FractionLimbs(rem, d, n) ==
  IF n = 0 THEN <<>>
  ELSE FractionLimbs((rem * Base) % d, d, n - 1) \o <<(rem * Base) \div d>>

\* what is left of rem / d below those limbs
RECURSIVE FractionRest(_, _, _)
FractionRest(rem, d, n) ==
  IF n = 0 THEN rem ELSE FractionRest((rem * Base) % d, d, n - 1)

\* x / d for an integer x and a class count d
Divide(x, d) ==
  IF x.k = "nan" THEN NaN
  ELSE IF x.k = "inf" THEN Infinity(x.v < 0)
  ELSE IF d = 0 THEN (IF x.v = 0 THEN NaN ELSE Infinity(x.v < 0))
  ELSE LET n == Abs(x.v)
           q == Trim(FractionLimbs(n % d, d, FracLimbs) \o NatLimbs(n \div d))
       IN  Finite(x.v < 0, Round(q, FractionRest(n % d, d, FracLimbs) # 0))

\* j * x for a loop index j >= 1
Times(j, x) ==
  IF x.k = "fin" THEN Finite(x.neg, Round(MulLimbs(x.mag, j), FALSE)) ELSE x

\* a + b
Plus(a, b) ==
  IF a.k = "nan" \/ b.k = "nan" THEN NaN
  ELSE IF a.k = "inf" /\ b.k = "inf" THEN (IF a.neg = b.neg THEN a ELSE NaN)
  ELSE IF a.k = "inf" THEN a
  ELSE IF b.k = "inf" THEN b
  ELSE IF a.neg = b.neg THEN Finite(a.neg, Round(AddLimbs(a.mag, b.mag), FALSE))
  ELSE IF CmpLimbs(a.mag, b.mag) >= 0
       THEN Finite(a.neg, Round(SubLimbs(a.mag, b.mag), FALSE))
       ELSE Finite(b.neg, Round(SubLimbs(b.mag, a.mag), FALSE))

\* -1, 0, 1 as a < b, a = b, a > b, for numbers that are not NaN
Compare(a, b) ==
  IF a.k = "inf" /\ b.k = "inf"
  THEN (IF a.neg = b.neg THEN 0 ELSE IF a.neg THEN -1 ELSE 1)
  ELSE IF a.k = "inf" THEN (IF a.neg THEN -1 ELSE 1)
  ELSE IF b.k = "inf" THEN (IF b.neg THEN 1 ELSE -1)
  ELSE IF a.neg /\ ~b.neg THEN -1
  ELSE IF ~a.neg /\ b.neg THEN 1
  ELSE IF a.neg THEN CmpLimbs(b.mag, a.mag)
  ELSE CmpLimbs(a.mag, b.mag)

\* a >= b and a <= b; false when either is NaN
GreaterEq(a, b) == a.k # "nan" /\ b.k # "nan" /\ Compare(a, b) >= 0
LessEq(a, b) == a.k # "nan" /\ b.k # "nan" /\ Compare(a, b) <= 0

(***************************************************************************)
(* Integers as parseInt, Math.max and Math.min yield them: an integer, NaN *)
(* or an infinity (Math.max of no arguments is -Infinity, Math.min of no   *)
(* arguments is Infinity).                                                 *)
(***************************************************************************)
IntNaN == [k |-> "nan", v |-> 0]
IntInf(neg) == [k |-> "inf", v |-> IF neg THEN -1 ELSE 1]
Int_(n) == [k |-> "fin", v |-> n]

ToNumberOfInt(x) ==
  IF x.k = "nan" THEN NaN
  ELSE IF x.k = "inf" THEN Infinity(x.v < 0)
  ELSE FromInt(x.v)

\* max - min
Minus(a, b) ==
  IF a.k = "nan" \/ b.k = "nan" THEN IntNaN
  ELSE IF a.k = "inf" /\ b.k = "inf" THEN (IF a.v = b.v THEN IntNaN ELSE a)
  ELSE IF a.k = "inf" THEN a
  ELSE IF b.k = "inf" THEN IntInf(b.v > 0)
  ELSE Int_(a.v - b.v)

(***************************************************************************)
(* The weight attribute is a string.  The model tells three kinds apart:   *)
(*   "num"  a decimal literal of value h / 2        ("2", "-1", "1.5")     *)
(*   "px"   an integer h / 2 followed by other text ("1px")                *)
(*   "text" no number at all                        ("heavy", "")          *)
(***************************************************************************)
Num(h) == [t |-> "num", h |-> h]
Px(n) == [t |-> "px", h |-> 2 * n]
Text == [t |-> "text", h |-> 0]

\* parseInt(s, 10): the leading integer, the fraction cut off
ParseInt(s) ==
  IF s.t = "text" THEN IntNaN
  ELSE Int_(IF s.h < 0 THEN -((-s.h) \div 2) ELSE s.h \div 2)

\* the number a string stands for when it is compared with a number
ToNumber(s) ==
  IF s.t = "num"
  THEN Finite(s.h < 0, ShiftLeft(NatLimbs(Abs(s.h)), FracBits - 1))
  ELSE NaN

IsInteger(s) == s.t = "num" /\ s.h % 2 = 0

\* Math.max.apply(Math, weights) and Math.min.apply(Math, weights)
MathMax(ws) ==
  IF ws = {} THEN IntInf(TRUE)
  ELSE IF \E w \in ws : w.k = "nan" THEN IntNaN
  ELSE CHOOSE w \in ws : \A u \in ws : u.v <= w.v

MathMin(ws) ==
  IF ws = {} THEN IntInf(FALSE)
  ELSE IF \E w \in ws : w.k = "nan" THEN IntNaN
  ELSE CHOOSE w \in ws : \A u \in ws : u.v >= w.v

\* rangeSize and rangeValues[0..divisions]
RangeSize(min, max, divisions) == Divide(Minus(max, min), divisions)

RangeValues(min, max, divisions) ==
  [j \in 0..divisions |->
     IF j = divisions THEN ToNumberOfInt(max)
     ELSE IF j = 0 THEN ToNumberOfInt(min)
     ELSE Plus(ToNumberOfInt(min), Times(j, RangeSize(min, max, divisions)))]

(***************************************************************************)
(* The plugin.                                                             *)
(***************************************************************************)
\* the test with < for its upper bound, as the comment over it words it
InRangeStrict(w, rangeValues, j) ==
  /\ GreaterEq(ToNumber(w), rangeValues[j])
  /\ LessEq(ToNumber(w), rangeValues[j + 1])
  /\ ~GreaterEq(ToNumber(w), rangeValues[j + 1])

\* $currentWeight >= rangeValues[j] && $currentWeight <= rangeValues[j + 1]
InRange(w, rangeValues, j) ==
  /\ GreaterEq(ToNumber(w), rangeValues[j])
  /\ LessEq(ToNumber(w), rangeValues[j + 1])

\* the ranges j the weight w is in, given the container's min and max
RangesOf(w, min, max, divisions) ==
  {j \in 0..(divisions - 1) : InRange(w, RangeValues(min, max, divisions), j)}

(***************************************************************************)
(* RangesOf for the strings, weights and class counts of the model, as a   *)
(* table.  Merging a function with the empty one stores its values, so     *)
(* that reading an entry does not compute it again.                        *)
(***************************************************************************)
Stored(f) == f @@ <<>>

AllAttrs ==
  {Num(h) : h \in (-3)..(2 * MaxWeight)} \cup {Num(2 * n) : n \in 0..MaxRandom}
  \cup {Num(2 * n) : n \in {WideWeight, 2 * WideWeight}} \cup {Text, Px(1)}
WeightInts == {ParseInt(a).v : a \in AllAttrs}
BandCounts == (0..MaxBands) \cup {ManyBands}

RangesRow(min, max, divisions) ==
  [w \in AllAttrs |-> RangesOf(w, min, max, divisions)]

RangesTable ==
  Stored([c \in WeightInts \X WeightInts \X BandCounts |->
            IF c[1] <= c[2] THEN Stored(RangesRow(Int_(c[1]), Int_(c[2]), c[3])) ELSE <<>>])

\* string -> the ranges it is in, for a container of this min and max
Ranges(min, max, divisions) ==
  IF min.k = "fin" /\ max.k = "fin"
  THEN RangesTable[<<min.v, max.v, divisions>>]
  ELSE RangesRow(min, max, divisions)

\* $current.find(settings.tagSelector)
Tags(c) == {i \in Items : container[i] = c}

\* the if of the inner loop without its test of the processed class
MatchesUnguarded(inRanges, j, isProcessed) == j \in inRanges

\* the if of the inner loop, for a tag that is in the ranges inRanges
Matches(inRanges, j, isProcessed) == j \in inRanges /\ ~isProcessed

\* the inner loop reading the classes list from its end: classes[divisions - 1 - j]
RECURSIVE BandLoopReversed(_, _, _, _)
BandLoopReversed(inRanges, divisions, j, t) ==
  IF j >= divisions THEN t
  ELSE BandLoopReversed(inRanges, divisions, j + 1,
                        IF j \in inRanges /\ ~t.processed
                        THEN [bands |-> t.bands \cup {divisions - 1 - j}, processed |-> TRUE]
                        ELSE t)

\* the inner loop from j on: t is the tag's [bands, processed]
RECURSIVE BandLoop(_, _, _, _)
BandLoop(inRanges, divisions, j, t) ==
  IF j >= divisions THEN t
  ELSE BandLoop(inRanges, divisions, j + 1,
                IF Matches(inRanges, j, t.processed)
                THEN [bands |-> t.bands \cup {j}, processed |-> TRUE]
                ELSE t)

\* the randomWeights branch: every tag of the document, whatever its container
Randomize(s, r) ==
  [s EXCEPT !.weight = [i \in Items |-> Num(2 * r[i])],
            !.processed = [i \in Items |-> FALSE]]

\* the rest of the body of this.each for container c
Classify(s, c) ==
  LET weights     == {ParseInt(s.weight[i]) : i \in Tags(c)}
      max         == MathMax(weights)
      min         == MathMin(weights)
      divisions   == classes
      ranges      == Ranges(min, max, divisions)
      after       == [i \in Tags(c) |->
                        BandLoop(ranges[s.weight[i]], divisions, 0,
                                 [bands |-> s.bands[i], processed |-> s.processed[i]])]
  IN  [s EXCEPT !.bands = [i \in Items |-> IF i \in Tags(c) THEN after[i].bands ELSE @[i]],
                !.processed = [i \in Items |->
                                 IF i \in Tags(c) THEN after[i].processed ELSE @[i]]]

\* this.each over the matched containers from c on, in document order
RECURSIVE Each(_, _, _, _, _)
Each(s, c, this, randomWeights, rnd) ==
  IF c > NumContainers THEN s
  ELSE IF c \notin this THEN Each(s, c + 1, this, randomWeights, rnd)
  ELSE Each(Classify(IF randomWeights THEN Randomize(s, rnd[c]) ELSE s, c),
            c + 1, this, randomWeights, rnd)

\* Math.floor(Math.random() * RandomLimit)
RandomLimit == 101
RandomWeights == {n \in 0..MaxRandom : n < RandomLimit}

Untouched(i) == bands[i] = {} /\ ~processed[i]

NoCall == [done |-> FALSE, this |-> {}, randomWeights |-> FALSE, fresh |-> FALSE,
           result |-> "none"]

\* $(this).tagCloud({randomWeights: randomWeights}), drawing rnd
TagCloudWith(this, randomWeights, rnd) ==
  LET s == Each([weight |-> weight, bands |-> bands, processed |-> processed],
                1, this, randomWeights, rnd)
  IN  /\ weight' = s.weight
      /\ bands' = s.bands
      /\ processed' = s.processed
      /\ call' = [done |-> TRUE, this |-> this, randomWeights |-> randomWeights,
                  fresh |-> \A i \in Items : container[i] \in this => Untouched(i),
                  result |-> "this"]
      /\ calls' = calls + 1
      /\ UNCHANGED <<container, classes>>

TagCloud(this, randomWeights) ==
  IF randomWeights
  THEN \E rnd \in [this -> [Items -> RandomWeights]] : TagCloudWith(this, TRUE, rnd)
  ELSE TagCloudWith(this, FALSE, <<>>)

(***************************************************************************)
(* The page around the plugin: it calls the plugin on any selection of     *)
(* containers, and between two calls it may rewrite a weight attribute or  *)
(* move a tag to another container.                                        *)
(***************************************************************************)
Call ==
  /\ calls < MaxCalls
  /\ \E this \in SUBSET Containers, randomWeights \in BOOLEAN :
       TagCloud(this, randomWeights)

IntegerAttrs == {Num(2 * n) : n \in RandomWeights}

SetWeight ==
  /\ 0 < calls /\ calls < MaxCalls
  /\ \E i \in Items, a \in IntegerAttrs :
       /\ weight' = [weight EXCEPT ![i] = a]
       /\ call' = NoCall
       /\ UNCHANGED <<container, bands, processed, classes, calls>>

MoveTag ==
  /\ 0 < calls /\ calls < MaxCalls
  /\ \E i \in Items, c \in Containers :
       /\ container' = [container EXCEPT ![i] = c]
       /\ call' = NoCall
       /\ UNCHANGED <<weight, bands, processed, classes, calls>>

\* a page whose tags the plugin has not seen yet
Fresh(attrs, counts) ==
  /\ weight \in [Items -> attrs]
  /\ container \in [Items -> Containers]
  /\ bands = [i \in Items |-> {}]
  /\ processed = [i \in Items |-> FALSE]
  /\ classes \in counts
  /\ call = NoCall
  /\ calls = 0

Init == Fresh(IntegerAttrs, 1..MaxBands)

Next == Call \/ SetWeight \/ MoveTag

Spec == Init /\ [][Next]_vars

(***************************************************************************)
(* One call without randomWeights on a fresh page, the weight attributes   *)
(* being any strings and the classes list of any length.                   *)
(***************************************************************************)
Attrs == {Num(h) : h \in (-3)..(2 * MaxWeight)} \cup {Text, Px(1)}

InitFresh == Fresh(Attrs, 0..MaxBands)

FirstCall == calls = 0 /\ \E this \in SUBSET Containers : TagCloud(this, FALSE)

SpecFresh == InitFresh /\ [][FirstCall]_vars

(***************************************************************************)
(* The same with a long classes list and integer weights far apart.        *)
(***************************************************************************)
WideAttrs == {Num(2 * n) : n \in {0, WideWeight, 2 * WideWeight}}

InitWide == Fresh(WideAttrs, {ManyBands})

SpecWide == InitWide /\ [][FirstCall]_vars


(***************************************************************************)
(* What the claims speak of.                                               *)
(***************************************************************************)
\* the state right after one call without randomWeights on untouched tags
AfterFirstCall == call.done /\ call.fresh /\ ~call.randomWeights

Numeric(c) == \A i \in Tags(c) : weight[i].t = "num"
Integral(c) == \A i \in Tags(c) : IsInteger(weight[i])

\* twice the weight of a tag whose weight is numeric
Twice(i) == weight[i].h

IsMaximal(i) == \A k \in Tags(container[i]) : Twice(k) <= Twice(i)
IsMinimal(i) == \A k \in Tags(container[i]) : Twice(k) >= Twice(i)

\* boundary[j] <= weight <= boundary[j + 1] for boundary[j] = min + j * (max - min) / d,
\* in exact arithmetic, all weights being integers
InBand(i, j) ==
  LET c  == container[i]
      mn == CHOOSE m \in {Twice(k) \div 2 : k \in Tags(c)} :
              \A k \in Tags(c) : m <= Twice(k) \div 2
      mx == CHOOSE m \in {Twice(k) \div 2 : k \in Tags(c)} :
              \A k \in Tags(c) : m >= Twice(k) \div 2
      w  == Twice(i) \div 2
  IN  /\ mn * classes + j * (mx - mn) <= w * classes
      /\ w * classes <= mn * classes + (j + 1) * (mx - mn)

ReferenceBand(i) ==
  CHOOSE j \in 0..(classes - 1) : InBand(i, j) /\ \A k \in 0..(j - 1) : ~InBand(i, k)

\* C1: after one call on untouched tags with finite numeric weights and a
\* positive number of classes, every tag of a matched container carries
\* exactly one band class, of an index in 0..classes-1.
C1_ExactlyOneBand ==
  (AfterFirstCall /\ classes >= 1) =>
    \A i \in Items :
      (container[i] \in call.this /\ Numeric(container[i])) =>
        Cardinality(bands[i]) = 1 /\ bands[i] \subseteq 0..(classes - 1)

\* C2: with integer weights the band of a tag is the reference band, the
\* smallest j with boundary[j] <= weight <= boundary[j + 1]; a weight on an
\* interior boundary gets the lower band.
C2_ReferenceBand ==
  (AfterFirstCall /\ classes >= 1) =>
    \A i \in Items :
      (container[i] \in call.this /\ Integral(container[i])) =>
        bands[i] = {ReferenceBand(i)}

\* C3: after one call on untouched tags the band index does not decrease
\* with the weight, for any two tags of one container.
C3_Monotone ==
  AfterFirstCall =>
    \A a, b \in Items :
      ( /\ container[a] \in call.this /\ container[a] = container[b]
        /\ weight[a].t = "num" /\ weight[b].t = "num" /\ Twice(a) <= Twice(b) ) =>
        \A ja \in bands[a], jb \in bands[b] : ja <= jb

C3_Witness ==
  /\ AfterFirstCall
  /\ \E a, b \in Items :
       /\ container[a] \in call.this /\ container[a] = container[b]
       /\ Twice(a) < Twice(b)
       /\ \E ja \in bands[a], jb \in bands[b] : ja < jb

C5_MinInFirstBand ==
  (AfterFirstCall /\ classes >= 1) =>
    \A i \in Items :
      (container[i] \in call.this /\ Numeric(container[i]) /\ IsMinimal(i)) =>
        bands[i] = {0}

\* C7: an empty set of tags, a weight that is no number or an empty classes
\* list is reported as InvalidInput, and no tag of the container gets a band
\* class or the processed marker.
Malformed(c) ==
  Tags(c) = {} \/ classes = 0 \/ \E i \in Tags(c) : weight[i].t # "num"

C7_InvalidInput ==
  (call.done /\ call.fresh /\ ~call.randomWeights) =>
    \A c \in call.this :
      Malformed(c) => call.result = "InvalidInput" /\ \A i \in Tags(c) : Untouched(i)

\* C8: when all weights of a container are equal, or there is one class
\* only, every tag gets band 0 and no other band.
C8_Degenerate ==
  (AfterFirstCall /\ classes >= 1) =>
    \A c \in call.this :
      (Numeric(c) /\ (classes = 1 \/ \A i, k \in Tags(c) : Twice(i) = Twice(k))) =>
        \A i \in Tags(c) : bands[i] = {0}

\* C6: a call without randomWeights leaves every tag that carries the
\* processed marker as it is, whatever happened to the weights and to the
\* containers since it was classified.
C6_NoReassign ==
  [][(call'.done => ~call'.randomWeights) =>
       \A i \in Items : processed[i] => bands'[i] = bands[i] /\ processed'[i]]_vars

\* a second call has met a processed tag whose band is no longer the one
\* its weight would give it
C6_Witness ==
  /\ call.done /\ ~call.randomWeights /\ calls = 2 /\ classes >= 2
  /\ \E i, k \in Items :
       /\ container[i] \in call.this /\ container[k] = container[i]
       /\ IsMaximal(i) /\ Twice(k) < Twice(i)
       /\ processed[i] /\ bands[i] = {0}

\* C9: whatever calls were made, a tag carries at most one band class, and
\* a tag with a band class carries the processed marker.
C9_OneBandAndMarked ==
  \A i \in Items : Cardinality(bands[i]) <= 1 /\ (bands[i] # {} => processed[i])

\* C10: a call changes no tag outside the matched containers, and without
\* randomWeights it changes no weight.
C10_Frame ==
  [][call'.done =>
       /\ \A i \in Items :
            container[i] \notin call'.this =>
              weight'[i] = weight[i] /\ bands'[i] = bands[i] /\ processed'[i] = processed[i]
       /\ ~call'.randomWeights => weight' = weight]_vars

=============================================================================
